---- MODULE Spec2Model ----
(***************************************************************************)
(* Tourist credential issuance, signing, anchoring and verification        *)
(* (cred2.py, verification_enginee.py, webAPI.py, stsApp.py).              *)
(*                                                                         *)
(* Text is a sequence of characters; a character is a one-character string *)
(* or an opaque multi-character chunk that contains no separator.  A JSON  *)
(* value is a record with a tag t and the fields s (text of a string),     *)
(* keys/vals (members of an object in insertion order, as a Python dict    *)
(* keeps them) or vals alone (elements of a list).                         *)
(***************************************************************************)
EXTENDS Integers, Sequences, FiniteSets, TLC

(***************************************************************************)
(* Bounds of the model.                                                    *)
(***************************************************************************)
\* number of issuance requests the backend serves in one run
MaxIssued == 1
\* number of Ed25519 key pairs the key generator can draw
NumKeys == 2
\* number of direct calls of verify_vc_signature on one credential object
MaxCalls == 2
\* number of credentials signed by direct calls of create_signed_vc
MaxForged == 2
\* the last second of the server's clock that the run covers
MaxClock == 12

(***************************************************************************)
(* JSON values and Python dict operations.                                 *)
(***************************************************************************)
Str(s) == [t |-> "str", s |-> s, keys |-> <<>>, vals |-> <<>>]
Arr(vs) == [t |-> "arr", s |-> <<>>, keys |-> <<>>, vals |-> vs]
Obj(ks, vs) == [t |-> "obj", s |-> <<>>, keys |-> ks, vals |-> vs]
None == [t |-> "null", s |-> <<>>, keys |-> <<>>, vals |-> <<>>]

\* key in d
HasKey(d, k) == \E i \in 1..Len(d.keys) : d.keys[i] = k

\* d[k]; the callers guard the KeyError
Get(d, k) == d.vals[CHOOSE i \in 1..Len(d.keys) : d.keys[i] = k]

\* d.get(k): None when the key is absent
GetOrNone(d, k) == IF d.t = "obj" /\ HasKey(d, k) THEN Get(d, k) ELSE None

\* d[k] = v: an existing key keeps its position, a new key goes last
Put(d, k, v) ==
    IF HasKey(d, k)
    THEN Obj(d.keys, [i \in 1..Len(d.vals) |-> IF d.keys[i] = k THEN v ELSE d.vals[i]])
    ELSE Obj(Append(d.keys, k), Append(d.vals, v))

\* the indices of a sequence of keys that are not k, in order
RECURSIVE KeepIdx(_, _, _)
KeepIdx(ks, k, i) ==
    IF i > Len(ks) THEN <<>>
    ELSE IF ks[i] = k THEN KeepIdx(ks, k, i + 1)
    ELSE <<i>> \o KeepIdx(ks, k, i + 1)

\* the dict d without the key k (what is left in d after d.pop(k))
Pop(d, k) ==
    LET idx == KeepIdx(d.keys, k, 1)
    IN  Obj([j \in 1..Len(idx) |-> d.keys[idx[j]]], [j \in 1..Len(idx) |-> d.vals[idx[j]]])

\* Python truthiness of a JSON value: None, "", [] and {} are falsy
Truthy(v) ==
    CASE v.t = "null" -> FALSE
      [] v.t = "str" -> v.s # <<>>
      [] OTHER -> v.vals # <<>>

(***************************************************************************)
(* json.dumps and json.loads.                                              *)
(***************************************************************************)
\* every key the program uses, in Python's str order (code points)
KeyOrder ==
    <<"@context", "bloodType", "created", "credentialSubject", "emergencyContact",
      "id", "insurancePolicyId", "issuanceDate", "issuer", "jws", "latitude",
      "longitude", "name", "nationality", "passportNumber", "proof", "proofPurpose",
      "touristId", "touristInfo", "type", "verificationMethod">>

Rank(k) == CHOOSE i \in 1..Len(KeyOrder) : KeyOrder[i] = k

RECURSIVE InsertSorted(_, _)
InsertSorted(sorted, k) ==
    IF sorted = <<>> THEN <<k>>
    ELSE IF Rank(k) < Rank(Head(sorted)) THEN <<k>> \o sorted
    ELSE <<Head(sorted)>> \o InsertSorted(Tail(sorted), k)

\* sorted(keys)
\* the keys in the order the dict holds them
SortKeysAsGiven(ks) == ks

RECURSIVE SortKeys(_)
SortKeys(ks) == IF ks = <<>> THEN <<>> ELSE InsertSorted(SortKeys(Tail(ks)), Head(ks))

Quote == "\""
Backslash == "\\"

\* the JSON escapes of the characters of a string
RECURSIVE Escape(_)
Escape(s) ==
    IF s = <<>> THEN <<>>
    ELSE IF Head(s) = Quote \/ Head(s) = Backslash
         THEN <<Backslash, Head(s)>> \o Escape(Tail(s))
         ELSE <<Head(s)>> \o Escape(Tail(s))

RECURSIVE Dumps(_, _, _, _)
RECURSIVE DumpElements(_, _, _, _, _)
RECURSIVE DumpMembers(_, _, _, _, _, _)

\* the elements vs[i..] of a list, joined by item_sep
DumpElements(vs, i, sort_keys, item_sep, key_sep) ==
    IF i > Len(vs) THEN <<>>
    ELSE (IF i > 1 THEN <<item_sep>> ELSE <<>>)
         \o Dumps(vs[i], sort_keys, item_sep, key_sep)
         \o DumpElements(vs, i + 1, sort_keys, item_sep, key_sep)

\* the members of d named by ks[i..], joined by item_sep
DumpMembers(d, ks, i, sort_keys, item_sep, key_sep) ==
    IF i > Len(ks) THEN <<>>
    ELSE (IF i > 1 THEN <<item_sep>> ELSE <<>>)
         \o <<Quote, ks[i], Quote, key_sep>>
         \o Dumps(Get(d, ks[i]), sort_keys, item_sep, key_sep)
         \o DumpMembers(d, ks, i + 1, sort_keys, item_sep, key_sep)

\* json.dumps(v, separators=(item_sep, key_sep), sort_keys=sort_keys)
Dumps(v, sort_keys, item_sep, key_sep) ==
    CASE v.t = "str" -> <<Quote>> \o Escape(v.s) \o <<Quote>>
      [] v.t = "null" -> <<"null">>
      [] v.t = "arr" ->
            <<"[">> \o DumpElements(v.vals, 1, sort_keys, item_sep, key_sep) \o <<"]">>
      [] v.t = "obj" ->
            <<"{">>
            \o DumpMembers(v, IF sort_keys THEN SortKeys(v.keys) ELSE v.keys, 1,
                           sort_keys, item_sep, key_sep)
            \o <<"}">>

\* json.dumps(v): insertion order, separators (', ', ': ')
DumpsDefault(v) == Dumps(v, FALSE, ", ", ": ")

ItemSeps == {",", ", "}
KeySeps == {":", ": "}

\* the index of the quote that closes the string opened before position i
RECURSIVE ClosingQuote(_, _)
ClosingQuote(tk, i) ==
    IF tk[i] = Backslash THEN ClosingQuote(tk, i + 2)
    ELSE IF tk[i] = Quote THEN i
    ELSE ClosingQuote(tk, i + 1)

RECURSIVE Unescape(_)
Unescape(s) ==
    IF s = <<>> THEN <<>>
    ELSE IF Head(s) = Backslash THEN <<s[2]>> \o Unescape(Tail(Tail(s)))
    ELSE <<Head(s)>> \o Unescape(Tail(s))

RECURSIVE ParseValue(_, _)
RECURSIVE ParseElements(_, _, _)
RECURSIVE ParseMembers(_, _, _)

\* the elements of a list from position i on; acc holds the ones read so far
ParseElements(tk, i, acc) ==
    IF tk[i] = "]" THEN [v |-> Arr(acc), i |-> i + 1]
    ELSE IF tk[i] \in ItemSeps THEN ParseElements(tk, i + 1, acc)
    ELSE LET r == ParseValue(tk, i) IN ParseElements(tk, r.i, Append(acc, r.v))

\* the members of an object from position i on; a repeated key overwrites
ParseMembers(tk, i, acc) ==
    IF tk[i] = "}" THEN [v |-> acc, i |-> i + 1]
    ELSE IF tk[i] \in ItemSeps THEN ParseMembers(tk, i + 1, acc)
    ELSE LET r == ParseValue(tk, i + 4) IN ParseMembers(tk, r.i, Put(acc, tk[i + 1], r.v))

\* the value that starts at position i and the position after it
ParseValue(tk, i) ==
    CASE tk[i] = Quote ->
            LET j == ClosingQuote(tk, i + 1)
            IN  [v |-> Str(Unescape(SubSeq(tk, i + 1, j - 1))), i |-> j + 1]
      [] tk[i] = "[" -> ParseElements(tk, i + 1, <<>>)
      [] tk[i] = "{" -> ParseMembers(tk, i + 1, Obj(<<>>, <<>>))
      [] OTHER -> [v |-> None, i |-> i + 1]

\* json.loads(text) for a text json.dumps produced
Loads(text) == ParseValue(text, 1).v

(***************************************************************************)
(* str.split, str.rstrip, base58 and base64.                               *)
(***************************************************************************)
\* text.split(sep): the segments between the occurrences of the character sep
RECURSIVE SplitFrom(_, _, _, _)
SplitFrom(text, sep, i, cur) ==
    IF i > Len(text) THEN <<cur>>
    ELSE IF text[i] = sep THEN <<cur>> \o SplitFrom(text, sep, i + 1, <<>>)
    ELSE SplitFrom(text, sep, i + 1, Append(cur, text[i]))

Split(text, sep) == SplitFrom(text, sep, 1, <<>>)

\* text.rstrip(c)
RECURSIVE RStrip(_, _)
RStrip(text, c) ==
    IF text # <<>> /\ text[Len(text)] = c THEN RStrip(SubSeq(text, 1, Len(text) - 1), c)
    ELSE text

B58Alphabet ==
    <<
      "1", "2", "3", "4", "5", "6", "7", "8", "9", "A", "B", "C", "D", "E", "F", "G",
      "H", "J", "K", "L", "M", "N", "P", "Q", "R", "S", "T", "U", "V", "W", "X", "Y",
      "Z", "a", "b", "c", "d", "e", "f", "g", "h", "i", "j", "k", "m", "n", "o", "p",
      "q", "r", "s", "t", "u", "v", "w", "x", "y", "z" >>

B64Alphabet ==
    <<
      "A", "B", "C", "D", "E", "F", "G", "H", "I", "J", "K", "L", "M", "N", "O", "P",
      "Q", "R", "S", "T", "U", "V", "W", "X", "Y", "Z", "a", "b", "c", "d", "e", "f",
      "g", "h", "i", "j", "k", "l", "m", "n", "o", "p", "q", "r", "s", "t", "u", "v",
      "w", "x", "y", "z", "0", "1", "2", "3", "4", "5", "6", "7", "8", "9", "-", "_" >>

IndexIn(alphabet, c) == CHOOSE i \in 1..Len(alphabet) : alphabet[i] = c
InAlphabet(alphabet, c) == \E i \in 1..Len(alphabet) : alphabet[i] = c

\* int.from_bytes(b, 'big')
RECURSIVE BytesToInt(_)
BytesToInt(b) ==
    IF b = <<>> THEN 0 ELSE BytesToInt(SubSeq(b, 1, Len(b) - 1)) * 256 + b[Len(b)]

\* the big-endian bytes of n, none for 0
RECURSIVE IntToBytes(_)
IntToBytes(n) == IF n = 0 THEN <<>> ELSE IntToBytes(n \div 256) \o <<n % 256>>

\* the number of leading elements of s equal to z
RECURSIVE Leading(_, _)
Leading(s, z) == IF s # <<>> /\ Head(s) = z THEN 1 + Leading(Tail(s), z) ELSE 0

RECURSIVE B58Digits(_)
B58Digits(n) ==
    IF n = 0 THEN <<>> ELSE B58Digits(n \div 58) \o <<B58Alphabet[(n % 58) + 1]>>

\* base58.b58encode(b): one '1' per leading zero byte, then the base-58 digits
B58Encode(b) == [i \in 1..Leading(b, 0) |-> "1"] \o B58Digits(BytesToInt(b))

RECURSIVE B58ToInt(_)
B58ToInt(s) ==
    IF s = <<>> THEN 0
    ELSE B58ToInt(SubSeq(s, 1, Len(s) - 1)) * 58 + (IndexIn(B58Alphabet, s[Len(s)]) - 1)

\* base58.b58decode(s): raises on a character outside the alphabet
B58Decode(s) ==
    IF \E i \in 1..Len(s) : ~InAlphabet(B58Alphabet, s[i])
    THEN [ok |-> FALSE, bytes |-> <<>>]
    ELSE [ok |-> TRUE,
          bytes |-> [i \in 1..Leading(s, "1") |-> 0] \o IntToBytes(B58ToInt(s))]

\* base64.urlsafe_b64encode(b): 3 bytes make 4 characters, '=' pads the last group
RECURSIVE B64Encode(_)
B64Encode(b) ==
    IF b = <<>> THEN <<>>
    ELSE IF Len(b) = 1
    THEN <<B64Alphabet[(b[1] \div 4) + 1], B64Alphabet[((b[1] % 4) * 16) + 1], "=", "=">>
    ELSE IF Len(b) = 2
    THEN <<B64Alphabet[(b[1] \div 4) + 1],
           B64Alphabet[((b[1] % 4) * 16) + (b[2] \div 16) + 1],
           B64Alphabet[((b[2] % 16) * 4) + 1], "=">>
    ELSE <<B64Alphabet[(b[1] \div 4) + 1],
           B64Alphabet[((b[1] % 4) * 16) + (b[2] \div 16) + 1],
           B64Alphabet[((b[2] % 16) * 4) + (b[3] \div 64) + 1],
           B64Alphabet[(b[3] % 64) + 1]>>
         \o B64Encode(SubSeq(b, 4, Len(b)))

\* the 6-bit values of the alphabet characters of a text; the decoder skips the rest
RECURSIVE Sextets(_)
Sextets(text) ==
    IF text = <<>> THEN <<>>
    ELSE IF InAlphabet(B64Alphabet, Head(text))
         THEN <<IndexIn(B64Alphabet, Head(text)) - 1>> \o Sextets(Tail(text))
         ELSE Sextets(Tail(text))

RECURSIVE SextetsToBytes(_)
SextetsToBytes(x) ==
    IF Len(x) < 2 THEN <<>>
    ELSE IF Len(x) = 2 THEN <<(x[1] * 4) + (x[2] \div 16)>>
    ELSE IF Len(x) = 3 THEN <<(x[1] * 4) + (x[2] \div 16), ((x[2] % 16) * 16) + (x[3] \div 4)>>
    ELSE <<(x[1] * 4) + (x[2] \div 16), ((x[2] % 16) * 16) + (x[3] \div 4),
           ((x[3] % 4) * 64) + x[4]>>
         \o SextetsToBytes(SubSeq(x, 5, Len(x)))

\* base64.urlsafe_b64decode(text): raises "Incorrect padding" when the last group
\* is short of '=' characters; padding beyond what is needed is accepted
B64Decode(text) ==
    LET x == Sextets(text)
        pads == Cardinality({i \in 1..Len(text) : text[i] = "="})
        r == Len(x) % 4
    IN  IF r = 1 \/ (r = 2 /\ pads < 2) \/ (r = 3 /\ pads < 1)
        THEN [ok |-> FALSE, bytes |-> <<>>]
        ELSE [ok |-> TRUE, bytes |-> SextetsToBytes(x)]

(***************************************************************************)
(* Ed25519, SHA-256, the clock.                                            *)
(*                                                                         *)
(* Key pairs are numbered 1..NumKeys.  Ed25519 is deterministic: the       *)
(* signature of a message under a key is one fixed byte string.  The       *)
(* variable signed lists the (key, message) pairs signed so far, and the   *)
(* signature bytes of a pair are its position in that list, so no bytes    *)
(* verify for a pair that was never signed.  SHA-256 is collision-free:    *)
(* the digest of a text is the text under a tag.                           *)
(***************************************************************************)
Keys == 1..NumKeys

\* public_key.public_bytes(Raw, Raw): one byte stands for the 32 of a key
PublicKeyBytes(private_key) == <<private_key>>

\* Ed25519PublicKey.from_public_bytes accepts exactly the raw key length
IsPublicKey(bytes) == Len(bytes) = Len(PublicKeyBytes(1))

SignatureIndex(private_key, msg, table) ==
    IF \E i \in 1..Len(table) : table[i] = [key |-> private_key, msg |-> msg]
    THEN CHOOSE i \in 1..Len(table) : table[i] = [key |-> private_key, msg |-> msg]
    ELSE Len(table) + 1

\* the list of signed pairs after private_key.sign(msg)
SignedAfter(private_key, msg, table) ==
    IF SignatureIndex(private_key, msg, table) > Len(table)
    THEN Append(table, [key |-> private_key, msg |-> msg])
    ELSE table

\* private_key.sign(msg): the signature bytes
Ed25519Sign(private_key, msg, table) == <<SignatureIndex(private_key, msg, table)>>

\* a verify that checks the key and the signature, never the message
Ed25519VerifyAnyMessage(public_key_bytes, signature, msg, table) ==
    /\ Len(signature) = 1
    /\ signature[1] \in 1..Len(table)
    /\ PublicKeyBytes(table[signature[1]].key) = public_key_bytes

\* public_key.verify(signature, msg) does not raise InvalidSignature
Ed25519Verify(public_key_bytes, signature, msg, table) ==
    /\ Len(signature) = 1
    /\ signature[1] \in 1..Len(table)
    /\ table[signature[1]].msg = msg
    /\ PublicKeyBytes(table[signature[1]].key) = public_key_bytes

\* hashlib.sha256(bytes).digest()
Sha256(bytes) == <<"sha256:">> \o bytes

\* the readings of the UTC clock, to the second, one request after the other
Timestamps == <<"2025-09-01T10:00:00", "2025-09-01T10:00:07", "2025-09-01T10:01:15">>

\* datetime.utcnow().isoformat(timespec='seconds') + 'Z'
IsoFormatZ(t) == <<Timestamps[t], "Z">>

(***************************************************************************)
(* cred2.py: identity, credential, anchoring digest.                       *)
(***************************************************************************)
\* a prefix of one byte
MulticodecPrefixOneByte == <<237>>

\* bytes([0xed, 0x01])
MulticodecPrefix == <<237, 1>>

\* generate_issuer_id for the key pair the generator drew
GenerateIssuerId(private_key) ==
    LET prefixed_public_bytes == MulticodecPrefix \o PublicKeyBytes(private_key)
        did_key_identifier == B58Encode(prefixed_public_bytes)
        issuer_did == <<"did:key:">> \o did_key_identifier
    IN  [private_key |-> private_key,
         issuer_did |-> issuer_did,
         verification_method |-> issuer_did \o <<"#">> \o did_key_identifier]

\* the subscripts tourist_data[...] of create_signed_vc in evaluation order
SubscriptOrder ==
    <<"passportNumber", "name", "nationality", "passportNumber", "emergencyContact",
      "bloodType", "insurancePolicyId">>

\* the key of the KeyError create_signed_vc raises, "" when it raises none
RECURSIVE FirstKeyError(_, _)
FirstKeyError(tourist_data, i) ==
    IF i > Len(SubscriptOrder) THEN ""
    ELSE IF ~HasKey(tourist_data, SubscriptOrder[i]) THEN SubscriptOrder[i]
    ELSE FirstKeyError(tourist_data, i + 1)

\* base64.urlsafe_b64encode(json.dumps(jws_header).encode('utf-8')).rstrip(b'=')
EncodedHeader == <<"eyJhbGciOiAiRWREU0EiLCAiYjY0IjogZmFsc2UsICJjcml0IjogWyJiNjQiXX0">>

\* the credential_payload dict of create_signed_vc
CredentialPayload(tourist_data, issuer_did, t) ==
    Obj(<<"@context", "id", "type", "issuer", "issuanceDate", "credentialSubject">>,
        << Arr(<<Str(<<"https://www.w3.org/2018/credentials/v1">>)>>),
           Str(<<"urn:uuid:4f378344-8596-4c3a-a978-8fcaba3903c5">>),
           Arr(<<Str(<<"VerifiableCredential">>), Str(<<"TouristCredential">>)>>),
           Str(issuer_did),
           Str(IsoFormatZ(t)),
           Obj(<<"id", "touristInfo">>,
               << Str(<<"did:example:">> \o Sha256(Get(tourist_data, "passportNumber").s)),
                  Obj(<<"type", "name", "nationality", "passportNumber",
                        "emergencyContact", "bloodType", "insurancePolicyId">>,
                      << Str(<<"Tourist">>),
                         Get(tourist_data, "name"),
                         Get(tourist_data, "nationality"),
                         Get(tourist_data, "passportNumber"),
                         Get(tourist_data, "emergencyContact"),
                         Get(tourist_data, "bloodType"),
                         Get(tourist_data, "insurancePolicyId") >>) >>) >>)

\* the same bytes with the keys in the order the dict holds them
CanonicalBytesUnsorted(doc) == Dumps(doc, FALSE, ",", ":")

\* json.dumps(doc, separators=(',', ':'), sort_keys=True).encode('utf-8')
CanonicalBytes(doc) == Dumps(doc, TRUE, ",", ":")

\* create_signed_vc: the KeyError it raises, or the credential string it returns
\* and the signatures that exist afterwards
CreateSignedVc(tourist_data, issuer_private_key, issuer_did, verification_method, t, table) ==
    IF FirstKeyError(tourist_data, 1) # ""
    THEN [ok |-> FALSE, error |-> FirstKeyError(tourist_data, 1), vc |-> <<>>, signed |-> table]
    ELSE LET credential_payload == CredentialPayload(tourist_data, issuer_did, t)
             payload_bytes == CanonicalBytes(credential_payload)
             signing_input == EncodedHeader \o <<".">> \o payload_bytes
             signature == Ed25519Sign(issuer_private_key, signing_input, table)
             encoded_signature == RStrip(B64Encode(signature), "=")
             detached_jws == EncodedHeader \o <<".", ".">> \o encoded_signature
             proof == Obj(<<"type", "created", "verificationMethod", "proofPurpose", "jws">>,
                          << Str(<<"Ed25519Signature2018">>),
                             Str(IsoFormatZ(t)),
                             Str(verification_method),
                             Str(<<"assertionMethod">>),
                             Str(detached_jws) >>)
             final_vc == Put(credential_payload, "proof", proof)
         IN  [ok |-> TRUE, error |-> "", vc |-> DumpsDefault(final_vc),
              signed |-> SignedAfter(issuer_private_key, signing_input, table)]

\* issue_tourist_credential: a fresh identity, then create_signed_vc
IssueTouristCredential(tourist_data, private_key, t, table) ==
    LET identity == GenerateIssuerId(private_key)
    IN  CreateSignedVc(tourist_data, identity.private_key, identity.issuer_did,
                       identity.verification_method, t, table)

\* a hash of the credential with its keys in the order of the text
AnchorVcHashUnsorted(vc_string) ==
    LET vc_json == Loads(vc_string)
        canonical_vc_string == Dumps(vc_json, FALSE, ",", ":")
    IN  Sha256(canonical_vc_string)

\* the vc_hash anchor_vc sends to the contract
AnchorVcHash(vc_string) ==
    LET vc_json == Loads(vc_string)
        canonical_vc_string == Dumps(vc_json, TRUE, ",", ":")
    IN  Sha256(canonical_vc_string)

(***************************************************************************)
(* verification_enginee.py.                                                *)
(***************************************************************************)
\* a result that is False for InvalidSignature alone
VerifyResultOfMismatch(ret, diag, vc_json) ==
    [ret |-> diag # "invalid_signature", diag |-> diag, vc_json |-> vc_json]

\* what verify_vc_signature returns, what it prints, and the dict it was given
\* as the call leaves it
VerifyResult(ret, diag, vc_json) == [ret |-> ret, diag |-> diag, vc_json |-> vc_json]

\* steps 2 to 6 of verify_vc_signature, on the popped proof and what is left
VerifyProof(proof, vc_json, table) ==
    LET verification_method == GetOrNone(proof, "verificationMethod")
        jws_string == GetOrNone(proof, "jws")
    IN  IF verification_method.t # "str" THEN "unexpected_error"
        ELSE LET segments == Split(verification_method.s, "#")
                 did_key_identifier == segments[Len(segments)]
                 prefixed_public_bytes == B58Decode(did_key_identifier)
                 public_key_bytes == SubSeq(prefixed_public_bytes.bytes, 3,
                                            Len(prefixed_public_bytes.bytes))
             IN  IF ~prefixed_public_bytes.ok \/ ~IsPublicKey(public_key_bytes)
                 THEN "unexpected_error"
                 ELSE IF jws_string.t # "str" THEN "unexpected_error"
                 ELSE IF Len(Split(jws_string.s, ".")) # 3 THEN "unexpected_error"
                 ELSE LET parts == Split(jws_string.s, ".")
                          encoded_header == parts[1]
                          encoded_signature == parts[3]
                          payload_bytes == Dumps(vc_json, TRUE, ",", ":")
                          signing_input == encoded_header \o <<".">> \o payload_bytes
                          decoded_signature == B64Decode(encoded_signature \o <<"=", "=">>)
                      IN  IF ~decoded_signature.ok THEN "unexpected_error"
                          ELSE IF Ed25519Verify(public_key_bytes, decoded_signature.bytes,
                                                signing_input, table)
                          THEN "valid"
                          ELSE "invalid_signature"

\* verify_vc_signature(vc_json)
VerifyVcSignature(vc_json, table) ==
    IF vc_json.t # "obj" \/ ~HasKey(vc_json, "proof")
    THEN VerifyResult(FALSE, "unexpected_error", vc_json)
    ELSE LET proof == Get(vc_json, "proof")
             rest == Pop(vc_json, "proof")
         IN  IF ~Truthy(proof) THEN VerifyResult(FALSE, "no_proof", rest)
             ELSE IF proof.t # "obj" THEN VerifyResult(FALSE, "unexpected_error", rest)
             ELSE LET diag == VerifyProof(proof, rest, table)
                  IN  VerifyResult(diag = "valid", diag, rest)

\* a hash of the credential without its proof
VerifyAnchorHashOfPayload(vc_string) ==
    LET vc_json == Pop(Loads(vc_string), "proof")
        canonical_vc_string == Dumps(vc_json, TRUE, ",", ":")
    IN  Sha256(canonical_vc_string)

\* the vc_hash verify_anchor looks up
VerifyAnchorHash(vc_string) ==
    LET vc_json == Loads(vc_string)
        canonical_vc_string == Dumps(vc_json, TRUE, ",", ":")
    IN  Sha256(canonical_vc_string)

\* verify_anchor(vc_string) against the anchor store, the RPC node reachable or
\* not: what it returns, what it prints, and the hash it printed
VerifyAnchor(vc_string, store, reachable) ==
    LET vc_hash == VerifyAnchorHash(vc_string)
    IN  IF ~reachable THEN [ret |-> FALSE, diag |-> "error", vc_hash |-> vc_hash]
        ELSE IF vc_hash \in store THEN [ret |-> TRUE, diag |-> "found", vc_hash |-> vc_hash]
        ELSE [ret |-> FALSE, diag |-> "not_found", vc_hash |-> vc_hash]

(***************************************************************************)
(* Inputs: the subject-attribute records a client posts, and the ways a    *)
(* credential is altered between the wallet and the responder's scanner.   *)
(***************************************************************************)
\* sample_tourist_data of cred2.main and the form defaults of the wallet
Priya ==
    Obj(<<"name", "nationality", "passportNumber", "emergencyContact", "bloodType",
          "insurancePolicyId">>,
        << Str(<<"Priya Sharma">>), Str(<<"British">>), Str(<<"G987654321">>),
           Str(<<"+44 20 7946 0999">>), Str(<<"O", "+">>), Str(<<"INS-AETNA-5588-XYZ">>) >>)

\* another subject: other key order, a quote character in the name, no policy
Ravi ==
    Obj(<<"bloodType", "insurancePolicyId", "passportNumber", "name", "emergencyContact",
          "nationality">>,
        << Str(<<"A", "-">>), Str(<<>>), Str(<<"Z1234567">>),
           Str(<<"Ravi ", Quote, "R", Quote, " Kumar">>), Str(<<"+91 98 7654 3210">>),
           Str(<<"Indian">>) >>)

\* the bodies a client posts: two full records, two with keys missing, and {}
TouristRecords ==
    { Priya, Ravi,
      Pop(Pop(Priya, "name"), "passportNumber"),
      Pop(Priya, "insurancePolicyId"),
      Obj(<<>>, <<>>) }

\* the fields of the credential payload, each by its path of keys
PayloadPaths ==
    { <<"@context">>, <<"id">>, <<"type">>, <<"issuer">>, <<"issuanceDate">>,
      <<"credentialSubject", "id">> }
    \cup { <<"credentialSubject", "touristInfo", f>> :
             f \in {"type", "name", "nationality", "passportNumber", "emergencyContact",
                    "bloodType", "insurancePolicyId"} }

\* a text that differs from s in one character
FlipCharacter(s) ==
    IF s = <<>> THEN <<"X">>
    ELSE IF Head(s) = "X" THEN <<"Y">> \o Tail(s)
    ELSE <<"X">> \o Tail(s)

\* a value other than v: one character of a string, or of a list's last string
ChangedValue(v) ==
    IF v.t = "str" THEN Str(FlipCharacter(v.s))
    ELSE Arr([i \in 1..Len(v.vals) |->
                IF i = Len(v.vals) THEN Str(FlipCharacter(v.vals[i].s)) ELSE v.vals[i]])

\* doc with the value at path changed and nothing else
RECURSIVE MutateAt(_, _)
MutateAt(doc, path) ==
    IF Len(path) = 1 THEN Put(doc, path[1], ChangedValue(Get(doc, path[1])))
    ELSE Put(doc, path[1], MutateAt(Get(doc, path[1]), Tail(path)))

Presentations ==
    { [kind |-> k, path |-> <<>>] :
        k \in {"genuine", "no_proof", "empty_proof", "no_jws", "jws_middle",
               "jws_two_segments", "proof_created"} }
    \cup { [kind |-> "field", path |-> p] : p \in PayloadPaths }

\* the jws string with X put between its two dots
JwsWithMiddle(jws) == LET parts == Split(jws, ".") IN parts[1] \o <<".", "X", ".">> \o parts[3]

\* the jws string with one dot only
JwsTwoSegments(jws) == LET parts == Split(jws, ".") IN parts[1] \o <<".">> \o parts[3]

\* credentials that have a proof block verify_vc_signature cannot process: the
\* verificationMethod absent, not base58, too short for a key or naming another
\* key, the signature not base64 or another signature, the proof a string
ProofFaults ==
    { [kind |-> k, path |-> <<>>] :
        k \in {"method_missing", "method_not_base58", "method_short", "method_other_key",
               "signature_bad_base64", "signature_other", "proof_string"} }

\* the verificationMethod of a key pair other than the one vm names
OtherMethod(vm) ==
    IF vm = GenerateIssuerId(1).verification_method
    THEN GenerateIssuerId(2).verification_method
    ELSE GenerateIssuerId(1).verification_method

\* the proof of a credential document with one of the faults
FaultyProof(proof, kind) ==
    CASE kind = "method_missing" -> Pop(proof, "verificationMethod")
      [] kind = "method_not_base58" ->
            Put(proof, "verificationMethod",
                Str(Get(proof, "verificationMethod").s \o <<"0">>))
      [] kind = "method_short" ->
            Put(proof, "verificationMethod",
                Str(<<"did:key:", "#">> \o B58Encode(MulticodecPrefix)))
      [] kind = "method_other_key" ->
            Put(proof, "verificationMethod",
                Str(OtherMethod(Get(proof, "verificationMethod").s)))
      [] kind = "signature_bad_base64" ->
            Put(proof, "jws", Str(Split(Get(proof, "jws").s, ".")[1] \o <<".", ".", "A">>))
      [] kind = "signature_other" ->
            Put(proof, "jws",
                Str(Split(Get(proof, "jws").s, ".")[1] \o <<".", ".">>
                    \o RStrip(B64Encode(<<200>>), "=")))
      [] kind = "proof_string" -> Str(<<"x">>)

\* the credential document a holder presents for a credential document doc
PresentedDoc(doc, how) ==
    CASE how.kind = "genuine" -> doc
      [] how.kind = "field" -> MutateAt(doc, how.path)
      [] how.kind = "no_proof" -> Pop(doc, "proof")
      [] how.kind = "empty_proof" -> Put(doc, "proof", Obj(<<>>, <<>>))
      [] how.kind = "no_jws" -> Put(doc, "proof", Pop(Get(doc, "proof"), "jws"))
      [] how.kind = "jws_middle" ->
            Put(doc, "proof",
                Put(Get(doc, "proof"), "jws", Str(JwsWithMiddle(Get(Get(doc, "proof"), "jws").s))))
      [] how.kind = "jws_two_segments" ->
            Put(doc, "proof",
                Put(Get(doc, "proof"), "jws", Str(JwsTwoSegments(Get(Get(doc, "proof"), "jws").s))))
      [] how.kind = "proof_created" -> MutateAt(doc, <<"proof", "created">>)
      [] how \in ProofFaults -> Put(doc, "proof", FaultyProof(Get(doc, "proof"), how.kind))

\* the text the responder's QR reader decodes
PresentedString(text, how) ==
    IF how.kind = "genuine" THEN text ELSE DumpsDefault(PresentedDoc(Loads(text), how))

(***************************************************************************)
(* State.                                                                  *)
(***************************************************************************)
VARIABLES
    anchorStore,        \* the hashes the anchor contract holds
    signed,             \* the (key, message) pairs Ed25519 has signed
    issued,             \* issuance requests served
    request,            \* tourist_data of the last issuance request
    response,           \* the HTTP response of the last issuance request
    anchor_vc_hash,     \* the vc_hash anchor_vc printed last
    savedFile,          \* latest_vc_for_responder.json, indentation left out
    TOURIST_DATABASE,   \* webAPI.TOURIST_DATABASE
    TOURIST_LOCATIONS,  \* webAPI.TOURIST_LOCATIONS
    latest_vc_string,   \* st.session_state.latest_vc_string of the wallet
    vc_string,          \* the text the responder decoded last
    presented,          \* how that text relates to the wallet's credential
    check,              \* the responder's last verification results
    prev_check,         \* the verification results before those
    held,               \* a credential dict a caller of the engine holds
    held_results,       \* what verify_vc_signature returned for held, call by call
    pc,                 \* where each issuance request served by a thread stands
    rq,                 \* what each of these requests holds in its locals
    results,            \* the HTTP response of each of these requests
    txCount,            \* transactions of the deployer account the node has accepted
    docs,               \* two documents handed to the canonical serialization
    canon,              \* their canonical bytes
    identity,           \* what generate_issuer_id returned
    reconstructed,      \* the identifier derived again from its verificationMethod
    clock,              \* time.time() of the server, in whole seconds
    location_request,   \* the last POST /api/updateLocation and the time it took
    location_response,  \* the HTTP response of that request
    alerts,             \* the calls of send_emergency_alert that request made
    stationary_check,   \* whether that request ran check_stationary_anomaly, and on what
    previous_location   \* TOURIST_LOCATIONS.get(touristId) when that request arrived

\* the state of the requests that threads of the server work on step by step
concVars == << pc, rq, results, txCount >>

\* the arguments and results of the functions that are run on their own
pureVars == << docs, canon, identity, reconstructed >>

\* the clock and what the last location update did
locVars ==
    << clock, location_request, location_response, alerts, stationary_check,
       previous_location >>

extVars == << concVars, pureVars, locVars >>

vars ==
    << anchorStore, signed, issued, request, response, anchor_vc_hash, savedFile,
       TOURIST_DATABASE, TOURIST_LOCATIONS, latest_vc_string, vc_string, presented, check,
       prev_check, held, held_results, extVars >>

NoText == <<>>
NotPresented == [kind |-> "none", path |-> <<>>]
NoResponse == [status |-> 0, details |-> NoText, credential |-> NoText]
NoCheck ==
    [is_signature_valid |-> FALSE, signature_diag |-> "none",
     is_anchor_valid |-> FALSE, anchor_diag |-> "none", vc_hash |-> NoText]

\* number of issuance requests the server's threads work on at the same time
NumRequests == 2

Requests == 1..NumRequests

NoRequest == [tourist_data |-> None, private_key |-> 0, vc |-> NoText, nonce |-> 0]

\* no thread has taken up a request
InitConc ==
    /\ pc = [r \in Requests |-> "idle"]
    /\ rq = [r \in Requests |-> NoRequest]
    /\ results = [r \in Requests |-> NoResponse]
    /\ txCount = 0

NoDocs == << None, None >>
NoCanon == << NoText, NoText >>
NoIdentity == [private_key |-> 0, issuer_did |-> NoText, verification_method |-> NoText]

\* no function has been run on its own
InitPure ==
    /\ docs = NoDocs
    /\ canon = NoCanon
    /\ identity = NoIdentity
    /\ reconstructed = NoText

NoLocationRequest == [latitude |-> 0, longitude |-> 0, touristId |-> NoText, processing |-> 0]
NoLocationResponse == [code |-> 0, status |-> "", message |-> NoText]
NoStationaryCheck == [evaluated |-> FALSE, last_location_data |-> <<>>, elapsed |-> 0]

\* no location update has arrived
InitLoc ==
    /\ clock = 0
    /\ location_request = NoLocationRequest
    /\ location_response = NoLocationResponse
    /\ alerts = <<>>
    /\ stationary_check = NoStationaryCheck
    /\ previous_location = <<>>

\* the backend has served no request and the session has just opened
InitSystem ==
    /\ anchorStore = {}
    /\ signed = <<>>
    /\ issued = 0
    /\ request = None
    /\ response = NoResponse
    /\ anchor_vc_hash = NoText
    /\ savedFile = NoText
    /\ TOURIST_DATABASE = <<>>
    /\ TOURIST_LOCATIONS = <<>>
    /\ latest_vc_string = NoText
    /\ vc_string = NoText
    /\ presented = NotPresented
    /\ check = NoCheck
    /\ prev_check = NoCheck
    /\ held = None
    /\ held_results = <<>>
    /\ InitConc
    /\ InitLoc

Init == InitSystem /\ InitPure

(***************************************************************************)
(* webAPI.py: POST /api/issueTouristCredential.                            *)
(***************************************************************************)
\* jsonify(body) as the client reads it back: Flask sorts the keys.  The line
\* breaks and indentation of debug mode are whitespace json.loads skips; the
\* text carries one space after each separator in their place
Jsonify(doc) == Dumps(doc, TRUE, ", ", ": ")

ErrorResponse(status, details) == [status |-> status, details |-> details, credential |-> NoText]

\* f with the value v at the key k
Store(f, k, v) == [x \in (DOMAIN f) \cup {k} |-> IF x = k THEN v ELSE f[x]]

\* what the RPC node does with the anchor transaction of anchor_vc: it confirms
\* it, it does not answer, or it mines it after the wait for the receipt timed out
AnchorOutcomes == {"confirmed", "unreachable", "timeout"}

\* issue_credential for the tourist_data a client posts while the session shows
\* the wallet page and the response to its last request has been read; the key
\* generator draws private_key, the node answers with anchoring
IssueCredential(tourist_data, private_key, anchoring) ==
    /\ issued < MaxIssued
    /\ response.status = 0
    /\ presented = NotPresented
    /\ issued' = issued + 1
    /\ request' = tourist_data
    /\ LET vc == IssueTouristCredential(tourist_data, private_key, issued + 1, signed)
           vc_json == Loads(vc.vc)
           vc_hash == AnchorVcHash(vc.vc)
           tourist_id == GetOrNone(vc_json, "issuer").s
           tourist_info == Get(Get(vc_json, "credentialSubject"), "touristInfo")
       IN  IF ~Truthy(tourist_data)
           THEN /\ response' = ErrorResponse(400, <<"Invalid JSON data provided.">>)
                /\ UNCHANGED << signed, anchor_vc_hash, anchorStore, savedFile,
                                TOURIST_DATABASE, TOURIST_LOCATIONS >>
           ELSE IF ~vc.ok
           THEN /\ response' =
                       ErrorResponse(500, <<"Credential issuance failed in engine: ",
                                            "'", vc.error, "'">>)
                /\ UNCHANGED << signed, anchor_vc_hash, anchorStore, savedFile,
                                TOURIST_DATABASE, TOURIST_LOCATIONS >>
           ELSE /\ signed' = vc.signed
                /\ anchor_vc_hash' = vc_hash
                /\ IF anchoring = "unreachable"
                   THEN /\ response' = ErrorResponse(500, <<"Transaction failed: ">>)
                        /\ UNCHANGED << anchorStore, savedFile, TOURIST_DATABASE,
                                        TOURIST_LOCATIONS >>
                   ELSE IF anchoring = "timeout"
                   THEN /\ anchorStore' = anchorStore \cup {vc_hash}
                        /\ response' = ErrorResponse(500, <<"Transaction failed: ">>)
                        /\ UNCHANGED << savedFile, TOURIST_DATABASE, TOURIST_LOCATIONS >>
                   ELSE /\ anchorStore' = anchorStore \cup {vc_hash}
                        /\ savedFile' = Dumps(vc_json, FALSE, ", ", ": ")
                        /\ TOURIST_DATABASE' =
                               Store(TOURIST_DATABASE, tourist_id,
                                     [name |-> GetOrNone(tourist_info, "name"),
                                      emergencyContact |->
                                          GetOrNone(tourist_info, "emergencyContact")])
                        /\ TOURIST_LOCATIONS' = Store(TOURIST_LOCATIONS, tourist_id, <<>>)
                        /\ response' = [status |-> 201, details |-> NoText,
                                        credential |-> Jsonify(vc_json)]
    /\ UNCHANGED << latest_vc_string, vc_string, presented, check, prev_check,
                    held, held_results >>
    /\ UNCHANGED extVars

(***************************************************************************)
(* stsApp.py: the wallet page and the responder page of one session.       *)
(***************************************************************************)
\* the wallet page reads the response of its request
CitizenReceive ==
    /\ response.status # 0
    /\ latest_vc_string' =
           IF response.status = 201 THEN DumpsDefault(Loads(response.credential))
           ELSE latest_vc_string
    /\ response' = NoResponse
    /\ UNCHANGED << anchorStore, signed, issued, request, anchor_vc_hash, savedFile,
                    TOURIST_DATABASE, TOURIST_LOCATIONS, vc_string, presented, check,
                    prev_check, held, held_results >>
    /\ UNCHANGED extVars

\* the sidebar takes the session back to the wallet page: what the responder
\* page decoded and showed is gone
OpenWalletPage ==
    /\ presented # NotPresented
    /\ vc_string' = NoText
    /\ presented' = NotPresented
    /\ check' = NoCheck
    /\ prev_check' = NoCheck
    /\ held' = None
    /\ held_results' = <<>>
    /\ UNCHANGED << anchorStore, signed, issued, request, response, anchor_vc_hash,
                    savedFile, TOURIST_DATABASE, TOURIST_LOCATIONS, latest_vc_string >>
    /\ UNCHANGED extVars

\* the responder page decodes a QR code that holds the wallet's credential,
\* altered or not, and runs both checks; the RPC node is reachable or not.  The
\* session's script is not waiting in the wallet page's requests.post
RunChecks(how) ==
    /\ latest_vc_string # NoText
    /\ response.status = 0
    /\ LET text == PresentedString(latest_vc_string, how)
           vc_json == Loads(text)
           signature == VerifyVcSignature(vc_json, signed)
       IN  /\ vc_string' = text
           /\ presented' = how
           /\ \E reachable \in BOOLEAN :
                 LET anchor == VerifyAnchor(text, anchorStore, reachable)
                 IN  check' = [is_signature_valid |-> signature.ret,
                               signature_diag |-> signature.diag,
                               is_anchor_valid |-> anchor.ret,
                               anchor_diag |-> anchor.diag,
                               vc_hash |-> anchor.vc_hash]
    /\ UNCHANGED << anchorStore, signed, issued, request, response, anchor_vc_hash,
                    savedFile, TOURIST_DATABASE, TOURIST_LOCATIONS, latest_vc_string,
                    held, held_results >>
    /\ UNCHANGED extVars

\* a run of the responder page.  RunChecks reads nothing an earlier run wrote,
\* so a run from a results page reaches only what the first run reaches: the
\* runs are taken from a fresh page
ResponderVerify(how) ==
    /\ check = NoCheck
    /\ RunChecks(how)
    /\ UNCHANGED prev_check

Next ==
    \/ \E tourist_data \in TouristRecords, private_key \in Keys, anchoring \in AnchorOutcomes :
          IssueCredential(tourist_data, private_key, anchoring)
    \/ CitizenReceive
    \/ OpenWalletPage
    \/ \E how \in Presentations : ResponderVerify(how)

Spec == Init /\ [][Next]_vars

(***************************************************************************)
(* The same system with the results of two runs of the responder page, one *)
(* after the other, kept side by side.                                     *)
(***************************************************************************)
\* the presentations the two runs draw from
ObsPresentations ==
    { [kind |-> k, path |-> <<>>] : k \in {"genuine", "no_proof", "proof_created"} }
    \cup { [kind |-> "field", path |-> <<"credentialSubject", "touristInfo", "bloodType">>] }

ResponderVerifyAgain(how) ==
    /\ prev_check = NoCheck
    /\ RunChecks(how)
    /\ prev_check' = check

NextObs ==
    \/ \E tourist_data \in TouristRecords, private_key \in Keys, anchoring \in AnchorOutcomes :
          IssueCredential(tourist_data, private_key, anchoring)
    \/ CitizenReceive
    \/ OpenWalletPage
    \/ \E how \in ObsPresentations : ResponderVerifyAgain(how)

SpecObs == Init /\ [][NextObs]_vars

(***************************************************************************)
(* The same system with the responder shown credentials whose proof block  *)
(* verify_vc_signature cannot process.                                     *)
(***************************************************************************)
\* what the responder is shown: the wallet's credential as it is, with one of
\* the faults, without jws, or with a jws of two segments
ProofPresentations ==
    ProofFaults
    \cup { [kind |-> k, path |-> <<>>] : k \in {"genuine", "no_jws", "jws_two_segments"} }

NextProof ==
    \/ \E tourist_data \in TouristRecords, private_key \in Keys, anchoring \in AnchorOutcomes :
          IssueCredential(tourist_data, private_key, anchoring)
    \/ CitizenReceive
    \/ OpenWalletPage
    \/ \E how \in ProofPresentations : ResponderVerify(how)

SpecProof == Init /\ [][NextProof]_vars

(***************************************************************************)
(* A caller of the engine that keeps the credential dict it verifies.      *)
(***************************************************************************)
\* vc_json = json.loads(vc_string) for the text a holder presents
LoadCredential(how) ==
    /\ latest_vc_string # NoText
    /\ response.status = 0
    /\ held = None
    /\ held' = Loads(PresentedString(latest_vc_string, how))
    /\ held_results' = <<>>
    /\ presented' = how
    /\ UNCHANGED << anchorStore, signed, issued, request, response, anchor_vc_hash,
                    savedFile, TOURIST_DATABASE, TOURIST_LOCATIONS, latest_vc_string,
                    vc_string, check, prev_check >>
    /\ UNCHANGED extVars

\* verify_vc_signature(held): the call pops from the dict it is given
DirectVerify ==
    /\ held # None
    /\ Len(held_results) < MaxCalls
    /\ LET result == VerifyVcSignature(held, signed)
       IN  /\ held' = result.vc_json
           /\ held_results' = Append(held_results, result.ret)
    /\ UNCHANGED << anchorStore, signed, issued, request, response, anchor_vc_hash,
                    savedFile, TOURIST_DATABASE, TOURIST_LOCATIONS, latest_vc_string,
                    vc_string, presented, check, prev_check >>
    /\ UNCHANGED extVars

NextCalls ==
    \/ \E tourist_data \in TouristRecords, private_key \in Keys, anchoring \in AnchorOutcomes :
          IssueCredential(tourist_data, private_key, anchoring)
    \/ CitizenReceive
    \/ OpenWalletPage
    \/ \E how \in Presentations : LoadCredential(how)
    \/ DirectVerify

SpecCalls == Init /\ [][NextCalls]_vars

(***************************************************************************)
(* webAPI.py under app.run: the development server gives each request a    *)
(* thread, so issue_credential runs for several requests at once.  A       *)
(* request is followed from one access of shared state to the next.        *)
(***************************************************************************)
\* the records the concurrent requests post: each is served in full when it
\* is the only request
ConcRecords == {Priya, Ravi}

\* issue_credential up to the return of issue_tourist_credential; the key
\* generator draws a key no other request holds
StartIssue(r, tourist_data, private_key) ==
    /\ pc[r] = "idle"
    /\ \A q \in Requests : rq[q].private_key # private_key
    /\ LET vc == IssueTouristCredential(tourist_data, private_key, issued + 1, signed)
       IN  /\ rq' = [rq EXCEPT ![r] = [tourist_data |-> tourist_data,
                                       private_key |-> private_key,
                                       vc |-> vc.vc, nonce |-> 0]]
           /\ signed' = vc.signed
           /\ IF vc.ok
              THEN /\ pc' = [pc EXCEPT ![r] = "issued"]
                   /\ UNCHANGED results
              ELSE /\ pc' = [pc EXCEPT ![r] = "done"]
                   /\ results' = [results EXCEPT ![r] =
                          ErrorResponse(500, <<"Credential issuance failed in engine: ",
                                               "'", vc.error, "'">>)]
    /\ issued' = issued + 1
    /\ UNCHANGED << anchorStore, request, response, anchor_vc_hash, savedFile,
                    TOURIST_DATABASE, TOURIST_LOCATIONS, latest_vc_string, vc_string,
                    presented, check, prev_check, held, held_results, txCount >>
    /\ UNCHANGED << pureVars, locVars >>

\* anchor_vc up to w3.eth.get_transaction_count(account.address)
ReadNonce(r) ==
    /\ pc[r] = "issued"
    /\ anchor_vc_hash' = AnchorVcHash(rq[r].vc)
    /\ rq' = [rq EXCEPT ![r].nonce = txCount]
    /\ pc' = [pc EXCEPT ![r] = "nonce_read"]
    /\ UNCHANGED << anchorStore, signed, issued, request, response, savedFile,
                    TOURIST_DATABASE, TOURIST_LOCATIONS, latest_vc_string, vc_string,
                    presented, check, prev_check, held, held_results, results, txCount >>
    /\ UNCHANGED << pureVars, locVars >>

\* anchor_vc from build_transaction to the receipt: the node takes a
\* transaction whose nonce is the account's transaction count and refuses any
\* other, and send_raw_transaction raises
SendTransaction(r) ==
    /\ pc[r] = "nonce_read"
    /\ IF rq[r].nonce = txCount
       THEN /\ anchorStore' = anchorStore \cup {AnchorVcHash(rq[r].vc)}
            /\ txCount' = txCount + 1
            /\ pc' = [pc EXCEPT ![r] = "anchored"]
            /\ UNCHANGED results
       ELSE /\ results' = [results EXCEPT ![r] = ErrorResponse(500, <<"Transaction failed: ">>)]
            /\ pc' = [pc EXCEPT ![r] = "done"]
            /\ UNCHANGED << anchorStore, txCount >>
    /\ UNCHANGED << signed, issued, request, response, anchor_vc_hash, savedFile,
                    TOURIST_DATABASE, TOURIST_LOCATIONS, latest_vc_string, vc_string,
                    presented, check, prev_check, held, held_results, rq >>
    /\ UNCHANGED << pureVars, locVars >>

\* issue_credential after anchor_vc has returned: the file, the two dicts, 201
StoreAndRespond(r) ==
    /\ pc[r] = "anchored"
    /\ LET vc_json == Loads(rq[r].vc)
           tourist_id == GetOrNone(vc_json, "issuer").s
           tourist_info == Get(Get(vc_json, "credentialSubject"), "touristInfo")
       IN  /\ savedFile' = Dumps(vc_json, FALSE, ", ", ": ")
           /\ TOURIST_DATABASE' =
                  Store(TOURIST_DATABASE, tourist_id,
                        [name |-> GetOrNone(tourist_info, "name"),
                         emergencyContact |-> GetOrNone(tourist_info, "emergencyContact")])
           /\ TOURIST_LOCATIONS' = Store(TOURIST_LOCATIONS, tourist_id, <<>>)
           /\ results' = [results EXCEPT ![r] =
                  [status |-> 201, details |-> NoText, credential |-> Jsonify(vc_json)]]
    /\ pc' = [pc EXCEPT ![r] = "done"]
    /\ UNCHANGED << anchorStore, signed, issued, request, response, anchor_vc_hash,
                    latest_vc_string, vc_string, presented, check, prev_check, held,
                    held_results, rq, txCount >>
    /\ UNCHANGED << pureVars, locVars >>

NextConc ==
    \/ \E r \in Requests, tourist_data \in ConcRecords, private_key \in Keys :
          StartIssue(r, tourist_data, private_key)
    \/ \E r \in Requests : ReadNonce(r)
    \/ \E r \in Requests : SendTransaction(r)
    \/ \E r \in Requests : StoreAndRespond(r)

SpecConc == Init /\ [][NextConc]_vars

(***************************************************************************)
(* create_signed_vc called directly: its caller chooses the issuer_did and *)
(* the verification_method it passes, and verifies what comes back.        *)
(***************************************************************************)
\* create_signed_vc(tourist_data, key of signer, issuer_did of named,
\* verification_method of signer), and json.loads of the string it returns
ForgeCredential(tourist_data, named, signer) ==
    /\ held = None
    /\ Len(signed) < MaxForged
    /\ LET vc == CreateSignedVc(tourist_data, signer, GenerateIssuerId(named).issuer_did,
                                GenerateIssuerId(signer).verification_method,
                                Len(signed) + 1, signed)
       IN  /\ vc.ok
           /\ signed' = vc.signed
           /\ vc_string' = vc.vc
           /\ held' = Loads(vc.vc)
    /\ held_results' = <<>>
    /\ presented' = [kind |-> IF named = signer THEN "genuine" ELSE "forged", path |-> <<>>]
    /\ UNCHANGED << anchorStore, issued, request, response, anchor_vc_hash, savedFile,
                    TOURIST_DATABASE, TOURIST_LOCATIONS, latest_vc_string, check,
                    prev_check, extVars >>

NextForge ==
    \/ \E tourist_data \in ConcRecords, named \in Keys, signer \in Keys :
          ForgeCredential(tourist_data, named, signer)
    \/ DirectVerify
    \/ OpenWalletPage

SpecForge == Init /\ [][NextForge]_vars

(***************************************************************************)
(* The canonical serialization run on pairs of documents.                  *)
(***************************************************************************)
\* string values: empty, one character, the text null, and a text that reads
\* like the end of one member and the start of the next
LeafValues ==
    { Str(<<>>), Str(<<"A">>), Str(<<"null">>), None,
      Str(<<"A", Quote, ",", Quote, "name", Quote, ":", Quote, "A">>) }

\* objects of at most two members over the keys id and name, in both orders
FlatDocs ==
    { Obj(<<>>, <<>>) }
    \cup { Obj(<<k>>, <<v>>) : k \in {"id", "name"}, v \in LeafValues }
    \cup { Obj(<<"id", "name">>, <<v, w>>) : v, w \in {Str(<<"A">>), Str(<<>>)} }
    \cup { Obj(<<"name", "id">>, <<v, w>>) : v, w \in {Str(<<"A">>), Str(<<>>)} }

\* the documents: flat objects, lists, and objects that hold an object or a list
Documents ==
    FlatDocs
    \cup { Arr(<<>>), Arr(<<Str(<<"A">>), Str(<<>>)>>), Arr(<<Str(<<>>), Str(<<"A">>)>>) }
    \cup { Obj(<<"type">>, <<d>>) :
             d \in { Obj(<<"id", "name">>, <<Str(<<"A">>), Str(<<>>)>>),
                     Obj(<<"name", "id">>, <<Str(<<>>), Str(<<"A">>)>>),
                     Obj(<<"name", "id">>, <<Str(<<"A">>), Str(<<>>)>>),
                     Arr(<<Str(<<"A">>), Str(<<>>)>>),
                     Arr(<<Str(<<>>), Str(<<"A">>)>>) } }

InitCanon ==
    /\ InitSystem
    /\ docs \in Documents \X Documents
    /\ canon = NoCanon
    /\ identity = NoIdentity
    /\ reconstructed = NoText

\* payload_bytes of the signer, of the verifier and of both hashes
Canonicalize ==
    /\ canon = NoCanon
    /\ canon' = << CanonicalBytes(docs[1]), CanonicalBytes(docs[2]) >>
    /\ UNCHANGED << anchorStore, signed, issued, request, response, anchor_vc_hash,
                    savedFile, TOURIST_DATABASE, TOURIST_LOCATIONS, latest_vc_string,
                    vc_string, presented, check, prev_check, held, held_results,
                    concVars, locVars, docs, identity, reconstructed >>

NextCanon == Canonicalize

SpecCanon == InitCanon /\ [][NextCanon]_vars

(***************************************************************************)
(* generate_issuer_id and the key recovery of verify_vc_signature run on   *)
(* every value of the key byte.                                            *)
(***************************************************************************)
\* the key pairs, by the byte that stands for the public key
KeyBytes == 0..255

\* generate_issuer_id
GenerateIdentity(private_key) ==
    /\ identity = NoIdentity
    /\ identity' = GenerateIssuerId(private_key)
    /\ UNCHANGED << anchorStore, signed, issued, request, response, anchor_vc_hash,
                    savedFile, TOURIST_DATABASE, TOURIST_LOCATIONS, latest_vc_string,
                    vc_string, presented, check, prev_check, held, held_results,
                    concVars, locVars, docs, canon, reconstructed >>

\* step 2 of verify_vc_signature, then the identifier of generate_issuer_id for
\* the recovered key
ReconstructedIdentifier(verification_method) ==
    LET segments == Split(verification_method, "#")
        did_key_identifier == segments[Len(segments)]
        prefixed_public_bytes == B58Decode(did_key_identifier).bytes
        public_key_bytes == SubSeq(prefixed_public_bytes, 3, Len(prefixed_public_bytes))
    IN  <<"did:key:">> \o B58Encode(MulticodecPrefix \o public_key_bytes)

ReconstructIdentity ==
    /\ identity # NoIdentity
    /\ reconstructed = NoText
    /\ reconstructed' = ReconstructedIdentifier(identity.verification_method)
    /\ UNCHANGED << anchorStore, signed, issued, request, response, anchor_vc_hash,
                    savedFile, TOURIST_DATABASE, TOURIST_LOCATIONS, latest_vc_string,
                    vc_string, presented, check, prev_check, held, held_results,
                    concVars, locVars, docs, canon, identity >>

NextIdentity ==
    \/ \E private_key \in KeyBytes : GenerateIdentity(private_key)
    \/ ReconstructIdentity

SpecIdentity == Init /\ [][NextIdentity]_vars

(***************************************************************************)
(* geofenc.py and webAPI.py: POST /api/updateLocation.                     *)
(*                                                                         *)
(* A coordinate is a whole number of 1/10000 degrees and the clock counts  *)
(* whole seconds.  geofences.json is a file of the deployment; a zone is   *)
(* kept here with the positions of the run that its polygon contains, and  *)
(* the zones are in the order of the file.                                 *)
(***************************************************************************)
STATIONARY_THRESHOLD_SECONDS == 10

\* positions of the dashboard's simulated path, a position at latitude 0, and
\* a position by the lake of the park
Safe == [lat |-> 284570, lon |-> 770280]
Unmonitored == [lat |-> 284700, lon |-> 770600]
RestrictedArea == [lat |-> 284410, lon |-> 770110]
Lakeside == [lat |-> 284560, lon |-> 770270]
Equator == [lat |-> 0, lon |-> 770280]

Positions == {Safe, Unmonitored, RestrictedArea, Lakeside, Equator}

\* a park, the lake inside the park that is closed to visitors, and a closed
\* area elsewhere
GEO_ZONES ==
    << [name |-> <<"City Park">>, type |-> "safe_zone", coordinates |-> {Safe, Lakeside}],
       [name |-> <<"Park Lake">>, type |-> "restricted_zone", coordinates |-> {Lakeside}],
       [name |-> <<"Cantonment">>, type |-> "restricted_zone", coordinates |-> {RestrictedArea}] >>

\* Polygon(zone['coordinates']).contains(Point(longitude, latitude))
Contains(zone, lat, lon) == [lat |-> lat, lon |-> lon] \in zone.coordinates

\* check_location_status: the type and name of the first zone of GEO_ZONES that
\* contains the point; zone_name None is the empty text
CheckLocationStatus(lat, lon) ==
    LET hits == { i \in 1..Len(GEO_ZONES) : Contains(GEO_ZONES[i], lat, lon) }
        first == CHOOSE i \in hits : \A j \in hits : i <= j
    IN  IF hits = {}
        THEN [status |-> "unmonitored", zone_name |-> NoText]
        ELSE [status |-> GEO_ZONES[first].type, zone_name |-> GEO_ZONES[first].name]

\* str(n) of a natural number
DecimalAlphabet == <<"0", "1", "2", "3", "4", "5", "6", "7", "8", "9">>

RECURSIVE DecimalDigits(_)
DecimalDigits(n) ==
    IF n < 10
    THEN << DecimalAlphabet[n + 1] >>
    ELSE DecimalDigits(n \div 10) \o << DecimalAlphabet[(n % 10) + 1] >>

\* time.time() - last_location_data.get('timestamp', 0), with the clock at now;
\* the variant reads a record that carries no timestamp
TimeSinceLastUpdateNoTimestamp(last_location_data, now) == now
TimeSinceLastUpdate(last_location_data, now) ==
    now - (IF "timestamp" \in DOMAIN last_location_data
           THEN last_location_data.timestamp
           ELSE 0)

\* check_stationary_anomaly(last_location_data) called with the clock at now
CheckStationaryAnomaly(last_location_data, now) ==
    LET time_since_last_update == TimeSinceLastUpdate(last_location_data, now)
        minutes == time_since_last_update \div 60
    IN  IF DOMAIN last_location_data = {}
        THEN [is_anomaly |-> FALSE, reason |-> <<"No previous location data.">>,
              elapsed |-> 0]
        ELSE IF time_since_last_update > STATIONARY_THRESHOLD_SECONDS
        THEN [is_anomaly |-> TRUE,
              reason |-> <<"Tourist has been stationary for over ">>
                         \o DecimalDigits(minutes) \o <<" minutes.">>,
              elapsed |-> time_since_last_update]
        ELSE [is_anomaly |-> FALSE, reason |-> <<"Tourist is moving normally.">>,
              elapsed |-> time_since_last_update]

\* the call send_emergency_alert(tourist_name, tourist_id, emergency_contact,
\* location, reason) for the tourist_info of the tourist
EmergencyAlert(tourist_id, tourist_info, lat, lon, reason) ==
    [tourist_name |-> tourist_info.name, tourist_id |-> tourist_id,
     emergency_contact |-> tourist_info.emergencyContact,
     location |-> [lat |-> lat, lon |-> lon], reason |-> reason]

LocationResponse(code, status, message) ==
    [code |-> code, status |-> status, message |-> message]

\* an id no credential was issued for
UnregisteredId == <<"did:key:z", "U", "n", "k", "n", "o", "w", "n">>

\* seconds from the write of the location record to the reading of the clock in
\* check_stationary_anomaly: none, just under the threshold, over it
ProcessingTimes == {0, STATIONARY_THRESHOLD_SECONDS - 1, STATIONARY_THRESHOLD_SECONDS + 1}

\* update_location for the JSON body {latitude, longitude, touristId}; the
\* request arrives with the clock at clock and spends processing seconds
\* between writing the location record and checking for a stationary tourist
UpdateLocation(lat, lon, tourist_id, processing) ==
    /\ clock + processing <= MaxClock
    /\ clock' = clock + processing
    /\ location_request' =
           [latitude |-> lat, longitude |-> lon, touristId |-> tourist_id,
            processing |-> processing]
    /\ previous_location' =
           IF tourist_id \in DOMAIN TOURIST_LOCATIONS
           THEN TOURIST_LOCATIONS[tourist_id]
           ELSE <<>>
    /\ IF lat = 0 \/ lon = 0 \/ tourist_id = NoText
       THEN /\ location_response' =
                   LocationResponse(400, "error",
                                    <<"Missing latitude, longitude, or touristId">>)
            /\ alerts' = <<>>
            /\ stationary_check' = NoStationaryCheck
            /\ UNCHANGED TOURIST_LOCATIONS
       ELSE LET written == Store(TOURIST_LOCATIONS, tourist_id,
                                 [lat |-> lat, lon |-> lon, timestamp |-> clock])
                location == CheckLocationStatus(lat, lon)
                known == tourist_id \in DOMAIN TOURIST_DATABASE
                anomaly == CheckStationaryAnomaly(written[tourist_id], clock + processing)
            IN  /\ TOURIST_LOCATIONS' = written
                /\ IF location.status = "restricted_zone"
                   THEN /\ alerts' =
                               IF known
                               THEN << EmergencyAlert(tourist_id, TOURIST_DATABASE[tourist_id],
                                           lat, lon,
                                           <<"Tourist has entered a restricted area: ">>
                                           \o location.zone_name) >>
                               ELSE <<>>
                        /\ location_response' =
                               LocationResponse(200, "alert",
                                   <<"Tourist entered restricted zone: ">>
                                   \o location.zone_name)
                        /\ stationary_check' = NoStationaryCheck
                   ELSE /\ stationary_check' =
                               [evaluated |-> TRUE,
                                last_location_data |-> written[tourist_id],
                                elapsed |-> anomaly.elapsed]
                        /\ IF anomaly.is_anomaly
                           THEN /\ alerts' =
                                       IF known
                                       THEN << EmergencyAlert(tourist_id,
                                                   TOURIST_DATABASE[tourist_id],
                                                   lat, lon, anomaly.reason) >>
                                       ELSE <<>>
                                /\ location_response' =
                                       LocationResponse(200, "alert", anomaly.reason)
                           ELSE /\ alerts' = <<>>
                                /\ location_response' =
                                       LocationResponse(200, location.status,
                                           IF location.zone_name # NoText
                                           THEN <<"Tourist is in '">> \o location.zone_name
                                                \o <<"' (", location.status, ").">>
                                           ELSE <<"Tourist is in an unmonitored area.">>)
    /\ UNCHANGED << anchorStore, signed, issued, request, response, anchor_vc_hash,
                    savedFile, TOURIST_DATABASE, latest_vc_string, vc_string, presented,
                    check, prev_check, held, held_results, concVars, pureVars >>

\* the tourist sends nothing for longer than the threshold
TimePasses ==
    /\ clock + STATIONARY_THRESHOLD_SECONDS + 1 <= MaxClock
    /\ clock' = clock + STATIONARY_THRESHOLD_SECONDS + 1
    /\ UNCHANGED << anchorStore, signed, issued, request, response, anchor_vc_hash,
                    savedFile, TOURIST_DATABASE, TOURIST_LOCATIONS, latest_vc_string,
                    vc_string, presented, check, prev_check, held, held_results,
                    concVars, pureVars, location_request, location_response, alerts,
                    stationary_check, previous_location >>

\* tourists are issued credentials and report positions
NextLoc ==
    \/ \E tourist_data \in ConcRecords, private_key \in Keys :
          IssueCredential(tourist_data, private_key, "confirmed")
    \/ \E position \in Positions, tourist_id \in (DOMAIN TOURIST_DATABASE) \cup {UnregisteredId},
          processing \in ProcessingTimes :
          UpdateLocation(position.lat, position.lon, tourist_id, processing)
    \/ TimePasses

SpecLoc == Init /\ [][NextLoc]_vars

(***************************************************************************)
(* Properties.  A responder run has happened when check.signature_diag is  *)
(* not "none"; presented says how the decoded text relates to the wallet's *)
(* credential.                                                             *)
(***************************************************************************)
Checked == check.signature_diag # "none"

BloodTypePath == <<"credentialSubject", "touristInfo", "bloodType">>

\* C1: the credential create_signed_vc produced for a record and a fresh
\* identity, presented as the wallet holds it, is accepted by
\* verify_vc_signature
C1_VerifyAcceptsSigned ==
    Checked /\ presented.kind = "genuine" => check.is_signature_valid

C1_Witness ==
    /\ Checked
    /\ presented.kind = "genuine"
    /\ check.signature_diag = "valid"
    /\ request = Ravi

\* C2: a signed credential with the value of one payload field changed, the
\* proof left as it was, is rejected by verify_vc_signature
C2_MutatedFieldRejected ==
    Checked /\ presented.kind = "field" => ~check.is_signature_valid

C2_Witness ==
    /\ presented = [kind |-> "field", path |-> BloodTypePath]
    /\ check.signature_diag = "invalid_signature"
    /\ ~check.is_signature_valid

\* C3: for a credential without a proof block, or with a proof block without
\* jws, verify_vc_signature ends with an outcome other than the False it
\* returns for a signature that does not match
C3_MalformedIsNotFalse ==
    Checked /\ presented.kind \in {"no_proof", "no_jws"} => check.is_signature_valid # FALSE

\* C4: verify_vc_signature leaves the dict it is given with its proof, and every
\* call on the same dict returns what the first call returned
C4_VerifyIsPure ==
    presented.kind = "genuine" /\ held_results # <<>> =>
        /\ HasKey(held, "proof")
        /\ \A i \in 1..Len(held_results) : held_results[i] = held_results[1]

\* C5: verify_vc_signature returns False for a jws that does not split on "."
\* into three segments with the middle one empty
C5_JwsFormatEnforced ==
    Checked /\ presented.kind \in {"jws_middle", "jws_two_segments"} =>
        ~check.is_signature_valid

C7_SameDigestOnBothPaths ==
    /\ response.status = 201 =>
          VerifyAnchorHash(DumpsDefault(Loads(response.credential))) = anchor_vc_hash
    /\ Checked /\ presented.kind = "genuine" => check.vc_hash = AnchorVcHash(savedFile)

C7_Witness ==
    /\ Checked
    /\ presented.kind = "genuine"
    /\ vc_string # savedFile
    /\ check.vc_hash = anchor_vc_hash

\* C8: verify_anchor returns False while the digest of the credential is not in
\* the store and True once it is
C8_LookupFollowsStore ==
    Checked => (check.is_anchor_valid <=> check.vc_hash \in anchorStore)

\* C9: what the two checks hand to their caller differs between a credential
\* with an invalid signature, a valid credential that is not anchored, and a
\* check that could not be made (input not usable, lookup failed)
Situation(c) ==
    IF c.signature_diag \in {"unexpected_error", "no_proof"} \/ c.anchor_diag = "error"
    THEN "not_checked"
    ELSE IF c.signature_diag = "invalid_signature" THEN "invalid"
    ELSE IF c.anchor_diag = "not_found" THEN "not_anchored"
    ELSE "verified"

Outcome(c) == << c.is_signature_valid, c.is_anchor_valid >>

C9_SituationsDistinguished ==
    /\ prev_check.signature_diag # "none"
    /\ Checked
    /\ Situation(prev_check) # Situation(check)
    => Outcome(prev_check) # Outcome(check)

\* C10: for a record with a required field absent or empty, issuance fails and
\* the error names the first such field in schema order
RequiredFields ==
    <<"name", "nationality", "passportNumber", "emergencyContact", "bloodType",
      "insurancePolicyId">>

Absent(tourist_data, f) == ~HasKey(tourist_data, f) \/ Get(tourist_data, f) = Str(<<>>)

FirstAbsent(tourist_data) ==
    RequiredFields[CHOOSE i \in 1..Len(RequiredFields) :
                      /\ Absent(tourist_data, RequiredFields[i])
                      /\ \A j \in 1..(i - 1) : ~Absent(tourist_data, RequiredFields[j])]

C10_MissingFieldNamed ==
    /\ response.status # 0
    /\ Truthy(request)
    /\ \E i \in 1..Len(RequiredFields) : Absent(request, RequiredFields[i])
    => /\ response.status = 500
       /\ response.details =
             <<"Credential issuance failed in engine: ", "'", FirstAbsent(request), "'">>


\* C11: an issuance request that fails returns no credential and leaves
\* TOURIST_DATABASE, TOURIST_LOCATIONS, the saved credential file and the anchor
\* store as they were before the request
C11_FailedIssuanceLeavesStores ==
    [][response.status = 0 /\ response'.status \in {400, 500} =>
          /\ response'.credential = NoText
          /\ UNCHANGED << anchorStore, savedFile, TOURIST_DATABASE, TOURIST_LOCATIONS >>]_vars

\* C12: whatever the interleaving of two issuance requests, each request that
\* would be served in full alone is served in full: it answers 201 with its
\* credential and the anchor store holds its digest
C12_RequestsDoNotInterfere ==
    \A r \in Requests :
        pc[r] = "done" =>
            /\ results[r].status = 201
            /\ AnchorVcHash(rq[r].vc) \in anchorStore

\* C13: for a credential with a proof block, verify_vc_signature returns False
\* whenever a step fails (verificationMethod absent or undecodable, key of the
\* wrong length, signature not base64, signature mismatch), and returns True
\* only when the Ed25519 check passed
C13_FailureYieldsFalse ==
    /\ Checked /\ presented \in ProofPresentations /\ presented.kind # "genuine" =>
          /\ check.is_signature_valid = FALSE
          /\ check.signature_diag \in {"unexpected_error", "invalid_signature"}
    /\ Checked /\ check.is_signature_valid => check.signature_diag = "valid"

C13_Witness ==
    /\ presented.kind = "signature_bad_base64"
    /\ check.signature_diag = "unexpected_error"
    /\ check.is_signature_valid = FALSE

\* C14: two documents have the same canonical bytes exactly when they have the
\* same keys with the same values at every level, whatever the order in which
\* their keys were inserted
RECURSIVE SameDocument(_, _)
SameDocument(d1, d2) ==
    /\ d1.t = d2.t
    /\ d1.s = d2.s
    /\ IF d1.t = "obj"
       THEN /\ {d1.keys[i] : i \in 1..Len(d1.keys)} = {d2.keys[i] : i \in 1..Len(d2.keys)}
            /\ \A i \in 1..Len(d1.keys) : SameDocument(d1.vals[i], Get(d2, d1.keys[i]))
       ELSE /\ Len(d1.vals) = Len(d2.vals)
            /\ \A i \in 1..Len(d1.vals) : SameDocument(d1.vals[i], d2.vals[i])

C14_CanonicalIffSameDocument ==
    canon # NoCanon => (canon[1] = canon[2] <=> SameDocument(docs[1], docs[2]))

C14_Witness ==
    /\ canon # NoCanon
    /\ docs[1] # docs[2]
    /\ docs[1].t = "obj" /\ Len(docs[1].keys) = 1 /\ docs[1].keys[1] = "type"
    /\ canon[1] = canon[2]

\* C15: the identifier derived again from the verificationMethod of a fresh
\* identity (tail after "#", base58 decoding, the 2-byte prefix stripped, the
\* identifier built from the recovered key) is the identity's identifier
C15_IdentifierRoundTrip ==
    reconstructed # NoText => reconstructed = identity.issuer_did

C15_Witness ==
    /\ reconstructed # NoText
    /\ identity.private_key = 255
    /\ reconstructed = identity.issuer_did

\* C16: verify_vc_signature returns True only for a credential whose issuer is
\* the identifier of the key its proof.verificationMethod names; a credential
\* signed with another key than the one its issuer names is rejected
C16_IssuerBoundToKey ==
    held_results # <<>> /\ held_results[1] /\ vc_string # NoText =>
        Get(Loads(vc_string), "issuer").s =
            ReconstructedIdentifier(
                Get(Get(Loads(vc_string), "proof"), "verificationMethod").s)

RestrictedZonesAround ==
    { i \in 1..Len(GEO_ZONES) :
          /\ GEO_ZONES[i].type = "restricted_zone"
          /\ Contains(GEO_ZONES[i], location_request.latitude, location_request.longitude) }

\* C18: a location update sends at most one emergency alert, only for a tourist
\* id that is a key of TOURIST_DATABASE, and for a position inside a restricted
\* zone it answers with an alert that names that zone and does not run the
\* stationary check
C18_RestrictedZoneFirst ==
    /\ Len(alerts) <= 1
    /\ alerts # <<>> => location_request.touristId \in DOMAIN TOURIST_DATABASE
    /\ location_response.code = 200 /\ RestrictedZonesAround # {} =>
          /\ location_response.status = "alert"
          /\ \E i \in RestrictedZonesAround :
                location_response.message =
                    <<"Tourist entered restricted zone: ">> \o GEO_ZONES[i].name
          /\ ~stationary_check.evaluated

====
